---- MODULE Spec2Model ----
(***************************************************************************)
(* Authentication / session subsystem of photo_share:                      *)
(*   src/src/services/auth.py  (class Auth: token codec, identity          *)
(*                              resolver, role guard)                      *)
(*   src/src/routes/auth.py    (signup, login, refresh_token,              *)
(*                              confirmed_email, ...)                      *)
(* Persistence (repository_users), the JWT library (jose) and redis are    *)
(* collaborators; they are modelled by their contracts.                    *)
(***************************************************************************)
EXTENDS Integers, FiniteSets, Sequences, TLC

VARIABLES users,    \* persistence: email -> User row, or None
          cache,    \* redis: email -> [blob, expire_at], or None  (key "user:<email>")
          now,      \* wall clock, whole seconds (datetime.utcnow())
          ticks,    \* number of clock advances so far
          issued,   \* tokens the server has handed out, in order of issue
          resp,     \* outcome of the last request handled
          inflight  \* requests being served step by step: id -> position and locals

vars == <<users, cache, now, ticks, issued, resp, inflight>>

-----------------------------------------------------------------------------
(* Bounds of the model *)

MaxTicks == 2       \* clock advances explored
MaxIssued == 4      \* tokens handed out
MaxChain == 8       \* the same in SpecRotation: four login/refresh pairs
MaxRace == 6        \* the same in SpecRace: a login and two concurrent rotations
MaxTtl == 3         \* the largest small expires_delta, in seconds (SpecLifetime)

-----------------------------------------------------------------------------
(* Values *)

None == [none |-> TRUE]            \* Python None
Absent == "<absent>"               \* a key that a dict / claim set does not hold

Emails == {"a@x.com", "b@x.com"}
Passwords == {"pw1", "pw2"}
RequiredRoles == {"admin", "moderator", "none"}

SECRET_KEY == "SECRET_KEY"
ForgedKey == "other-key"

ACCESS_MINUTES == 15
REFRESH_DAYS == 7
EMAIL_DAYS == 7
CACHE_TTL == 900

minutes(n) == n * 60
days(n) == n * 24 * 60 * 60

\* steps by which the clock advances: one second, and one second short of
\* each token lifetime, so that exp - 1, exp and exp + 1 are all visited
TickSteps == {1, minutes(ACCESS_MINUTES) - 1, days(REFRESH_DAYS) - 1}

-----------------------------------------------------------------------------
(* Credential hasher (passlib CryptContext, bcrypt) *)

get_password_hash(password) == [scheme |-> "bcrypt", digest_of |-> password]

verify_password(plain_password, hashed_password) ==
    hashed_password.digest_of = plain_password

-----------------------------------------------------------------------------
(* Token codec.  A token is the signed claim set; two tokens are the same   *)
(* string exactly when claims and key agree (HS signing is deterministic). *)

jwt_encode(to_encode, key) ==
    [sub |-> to_encode.sub, iat |-> to_encode.iat, exp |-> to_encode.exp,
     scope |-> to_encode.scope, sig |-> key]

\* jose.jwt.decode: signature first, then exp (rejected when exp < now)
jwt_decode(token, key, t) ==
    IF token.sig # key THEN [err |-> "JWTError"]
    ELSE IF token.exp < t THEN [err |-> "JWTError"]
    ELSE [err |-> "", sub |-> token.sub, iat |-> token.iat,
          exp |-> token.exp, scope |-> token.scope]

\* Optional[float]: <<>> is None, <<n>> is the number n; "if expires_delta:"
Truthy(expires_delta) == expires_delta # <<>> /\ expires_delta[1] # 0

create_access_token(data, expires_delta, t) ==
    LET expire == IF Truthy(expires_delta) THEN t + expires_delta[1]
                  ELSE t + minutes(ACCESS_MINUTES)
    IN jwt_encode([sub |-> data.sub, iat |-> t, exp |-> expire,
                   scope |-> "access_token"], SECRET_KEY)

create_refresh_token(data, expires_delta, t) ==
    LET expire == IF Truthy(expires_delta) THEN t + expires_delta[1]
                  ELSE t + days(REFRESH_DAYS)
    IN jwt_encode([sub |-> data.sub, iat |-> t, exp |-> expire,
                   scope |-> "refresh_token"], SECRET_KEY)

create_email_token(data, t) ==
    LET expire == t + days(EMAIL_DAYS)
    IN jwt_encode([sub |-> data.sub, iat |-> t, exp |-> expire,
                   scope |-> Absent], SECRET_KEY)

HTTPException(code, text) == [status |-> code, detail |-> text]
Unhandled(exc) == [status |-> 500, detail |-> exc]

\* decode_refresh_token without the scope comparison
decode_refresh_token_any_scope(refresh_token_, t) ==
    LET payload == jwt_decode(refresh_token_, SECRET_KEY, t) IN
    IF payload.err # "" THEN HTTPException(401, "Could not validate credentials")
    ELSE IF payload.sub = Absent THEN Unhandled("KeyError")
    ELSE [status |-> 200, detail |-> "", email |-> payload.sub]

decode_refresh_token(refresh_token_, t) ==
    LET payload == jwt_decode(refresh_token_, SECRET_KEY, t) IN
    IF payload.err # "" THEN HTTPException(401, "Could not validate credentials")
    ELSE IF payload.scope = Absent THEN Unhandled("KeyError")
    ELSE IF payload.scope = "refresh_token"
         THEN IF payload.sub = Absent THEN Unhandled("KeyError")
              ELSE [status |-> 200, detail |-> "", email |-> payload.sub]
    ELSE HTTPException(401, "Invalid scope for token")

\* get_email_from_token that does not verify exp
get_email_from_token_no_exp(token, t) ==
    LET payload == jwt_decode(token, SECRET_KEY, 0) IN
    IF payload.err # "" THEN HTTPException(422, "Invalid token for email.")
    ELSE IF payload.sub = Absent THEN Unhandled("KeyError")
    ELSE [status |-> 200, detail |-> "", email |-> payload.sub]

get_email_from_token(token, t) ==
    LET payload == jwt_decode(token, SECRET_KEY, t) IN
    IF payload.err # "" THEN HTTPException(422, "Invalid token for email.")
    ELSE IF payload.sub = Absent THEN Unhandled("KeyError")
    ELSE [status |-> 200, detail |-> "", email |-> payload.sub]

-----------------------------------------------------------------------------
(* Persistence collaborator (repository_users) *)

User(email, password, confirmed, admin, moderator, refresh_token_) ==
    [email |-> email, password |-> password, confirmed |-> confirmed,
     admin |-> admin, moderator |-> moderator, refresh_token |-> refresh_token_]

get_user_by_email(email, db) == db[email]

\* writes the refresh_token column of the principal's row
update_token(user, token, db) ==
    IF db[user.email] = None THEN db
    ELSE [db EXCEPT ![user.email] = [@ EXCEPT !.refresh_token = token]]

create_user(body, db) ==
    [db EXCEPT ![body.email] =
        User(body.email, body.password, FALSE, FALSE, FALSE, None)]

repository_confirmed_email(email, db) ==
    [db EXCEPT ![email] = [@ EXCEPT !.confirmed = TRUE]]

\* repository_users.upgrade_password: stores the hash of the new password
repository_upgrade_password(user, password, db) ==
    IF db[user.email] = None THEN db
    ELSE [db EXCEPT ![user.email] = [@ EXCEPT !.password = get_password_hash(password)]]

\* services/email.send_verification_email: mails a link that carries an
\* email-action token for the address
send_verification_email(email, t) == create_email_token([sub |-> email], t)

\* services/email.send_reset_email: likewise, for the password-reset link
send_reset_email(email, t) == create_email_token([sub |-> email], t)

\* Auth.upgrade_password: sets the attribute on the object it was given and
\* commits the request's session; an object loaded through that session is
\* written to its row, an unpickled one belongs to no session
upgrade_password(user, password, db, attached) ==
    IF attached /\ db[user.email] # None
    THEN [db EXCEPT ![user.email] = [@ EXCEPT !.password = get_password_hash(password)]]
    ELSE db

-----------------------------------------------------------------------------
(* Session cache (redis) and pickle *)

pickle_dumps(user) == [pickled |-> user]
pickle_loads(blob) == blob.pickled

\* r.get: a key whose time-to-live has run out is gone
r_get(c, email, t) ==
    IF c[email] = None THEN None
    ELSE IF c[email].expire_at # <<>> /\ c[email].expire_at[1] <= t THEN None
    ELSE c[email].blob

\* redis drops a key when its time-to-live has run out
r_purge(c, t) == [email \in DOMAIN c |-> IF r_get(c, email, t) = None THEN None ELSE c[email]]

\* r.set(key, blob) followed by r.expire(key, ttl)
r_set(c, email, blob) == [c EXCEPT ![email] = [blob |-> blob, expire_at |-> <<>>]]
r_expire(c, email, ttl, t) ==
    IF c[email] = None THEN c
    ELSE [c EXCEPT ![email] = [@ EXCEPT !.expire_at = <<t + ttl>>]]

-----------------------------------------------------------------------------
(* Identity resolver and role guard *)

credentials_exception == HTTPException(401, "Could not validate credentials")

Failed(exc, c) ==
    [status |-> exc.status, detail |-> exc.detail, user |-> None, cache |-> c,
     db_calls |-> 0, from_cache |-> FALSE]

\* the lookup that writes the cache before it looks at what persistence
\* returned
lookup_user_set_first(email, c, db, t) ==
    LET hit == r_get(c, email, t) IN
    IF hit = None
    THEN LET user == get_user_by_email(email, db)
             c2 == r_expire(r_set(c, email, pickle_dumps(user)), email, CACHE_TTL, t)
         IN IF user = None
            THEN [Failed(credentials_exception, c2) EXCEPT !.db_calls = 1]
            ELSE [status |-> 200, detail |-> "", user |-> user, cache |-> c2,
                  db_calls |-> 1, from_cache |-> FALSE]
    ELSE [status |-> 200, detail |-> "", user |-> pickle_loads(hit),
          cache |-> c, db_calls |-> 0, from_cache |-> TRUE]

\* the lookup that, on a hit, writes the current row back to the cache
lookup_user_refresh_on_hit(email, c, db, t) ==
    LET hit == r_get(c, email, t)
        user == get_user_by_email(email, db)
    IN IF hit = None
       THEN IF user = None
            THEN [Failed(credentials_exception, c) EXCEPT !.db_calls = 1]
            ELSE [status |-> 200, detail |-> "", user |-> user,
                  cache |-> r_expire(r_set(c, email, pickle_dumps(user)),
                                     email, CACHE_TTL, t),
                  db_calls |-> 1, from_cache |-> FALSE]
       ELSE [status |-> 200, detail |-> "", user |-> pickle_loads(hit),
             cache |-> IF user = None THEN c
                       ELSE r_expire(r_set(c, email, pickle_dumps(user)),
                                     email, CACHE_TTL, t),
             db_calls |-> 0, from_cache |-> TRUE]

\* the lookup that asks persistence even when the cache holds the subject
lookup_user_always_db(email, c, db, t) ==
    LET user == get_user_by_email(email, db) IN
    IF user = None
    THEN [Failed(credentials_exception, c) EXCEPT !.db_calls = 1]
    ELSE [status |-> 200, detail |-> "", user |-> user,
          cache |-> r_expire(r_set(c, email, pickle_dumps(user)),
                             email, CACHE_TTL, t),
          db_calls |-> 1, from_cache |-> FALSE]

\* the cache-fronted lookup of the subject (get_current_user, second half)
lookup_user(email, c, db, t) ==
    LET hit == r_get(c, email, t) IN
    IF hit = None
    THEN LET user == get_user_by_email(email, db) IN
         IF user = None
         THEN [Failed(credentials_exception, c) EXCEPT !.db_calls = 1]
         ELSE [status |-> 200, detail |-> "", user |-> user,
               cache |-> r_expire(r_set(c, email, pickle_dumps(user)),
                                  email, CACHE_TTL, t),
               db_calls |-> 1, from_cache |-> FALSE]
    ELSE [status |-> 200, detail |-> "", user |-> pickle_loads(hit),
          cache |-> c, db_calls |-> 0, from_cache |-> TRUE]

\* the first half of get_current_user: the subject of a bearer token
access_token_email(token, t) ==
    LET payload == jwt_decode(token, SECRET_KEY, t) IN
    IF payload.err # "" THEN credentials_exception
    ELSE IF payload.scope = Absent THEN Unhandled("KeyError")
    ELSE IF payload.scope # "access_token" THEN credentials_exception
    ELSE IF payload.sub = Absent THEN Unhandled("KeyError")
    ELSE [status |-> 200, detail |-> "", email |-> payload.sub]

\* get_current_user that also wants the subject to hold a stored refresh token
get_current_user_session_bound(token, c, db, t) ==
    LET payload == jwt_decode(token, SECRET_KEY, t) IN
    IF payload.err # "" THEN Failed(credentials_exception, c)
    ELSE IF payload.scope = Absent THEN Failed(Unhandled("KeyError"), c)
    ELSE IF payload.scope # "access_token" THEN Failed(credentials_exception, c)
    ELSE IF payload.sub = Absent THEN Failed(Unhandled("KeyError"), c)
    ELSE IF db[payload.sub] # None /\ db[payload.sub].refresh_token = None
         THEN Failed(credentials_exception, c)
    ELSE lookup_user(payload.sub, c, db, t)

\* get_current_user without the scope comparison
get_current_user_any_scope(token, c, db, t) ==
    LET payload == jwt_decode(token, SECRET_KEY, t) IN
    IF payload.err # "" THEN Failed(credentials_exception, c)
    ELSE IF payload.sub = Absent THEN Failed(Unhandled("KeyError"), c)
    ELSE lookup_user(payload.sub, c, db, t)

get_current_user(token, c, db, t) ==
    LET payload == jwt_decode(token, SECRET_KEY, t) IN
    IF payload.err # "" THEN Failed(credentials_exception, c)
    ELSE IF payload.scope = Absent THEN Failed(Unhandled("KeyError"), c)
    ELSE IF payload.scope # "access_token" THEN Failed(credentials_exception, c)
    ELSE IF payload.sub = Absent THEN Failed(Unhandled("KeyError"), c)
    ELSE lookup_user(payload.sub, c, db, t)

\* get_current_user_optional: the refresh_token cookie, None when the request
\* carries none; the exception of decode_refresh_token is not handled here
get_current_user_optional(cookie, db, t) ==
    IF cookie = None
    THEN [raised |-> FALSE, status |-> 200, detail |-> "", user |-> None]
    ELSE LET dec == decode_refresh_token(cookie, t) IN
         IF dec.status # 200
         THEN [raised |-> TRUE, status |-> dec.status, detail |-> dec.detail,
               user |-> None]
         ELSE [raised |-> FALSE, status |-> 200, detail |-> "",
               user |-> db[dec.email]]

\* check_user_privileges in which the admin flag does not stand in for the
\* moderator flag
check_user_privileges_flat(current_user, required_role) ==
    IF required_role = "admin" /\ ~current_user.admin
    THEN HTTPException(403, "Access forbidden: Requires admin privileges.")
    ELSE IF required_role = "moderator" /\ ~current_user.moderator
    THEN HTTPException(403, "Access forbidden: Requires moderator privileges.")
    ELSE [status |-> 200, detail |-> "", user |-> current_user]

check_user_privileges(current_user, required_role) ==
    IF required_role = "admin" /\ ~current_user.admin
    THEN HTTPException(403, "Access forbidden: Requires admin privileges.")
    ELSE IF required_role = "moderator"
            /\ ~(current_user.moderator \/ current_user.admin)
    THEN HTTPException(403, "Access forbidden: Requires moderator privileges.")
    ELSE [status |-> 200, detail |-> "", user |-> current_user]

\* require_role(required_role) -> role_checker, with its dependency
\* get_current_user resolved first
role_checker(token, required_role, c, db, t) ==
    LET cur == get_current_user(token, c, db, t) IN
    IF cur.status # 200 THEN cur @@ [returned |-> None, checked |-> FALSE]
    ELSE LET chk == check_user_privileges(cur.user, required_role) IN
         IF chk.status # 200
         THEN [cur EXCEPT !.status = chk.status, !.detail = chk.detail]
                 @@ [returned |-> None, checked |-> TRUE]
         ELSE cur @@ [returned |-> chk.user, checked |-> TRUE]

-----------------------------------------------------------------------------
(* Route handlers (routes/auth.py).  Each returns the response and the      *)
(* persistence state it leaves.                                            *)

Response(code, text, db) ==
    [status |-> code, detail |-> text, access_token |-> None,
     refresh_token |-> None, mail |-> None, db |-> db]

\* signup that does not look for an existing account
signup_no_check(body, db, t) ==
    LET hashed == [body EXCEPT !.password = get_password_hash(body.password)]
        db2 == create_user(hashed, db)
    IN [Response(201, "User successfully created. Check your email for confirmation.", db2)
           EXCEPT !.mail = send_verification_email(body.email, t)]

signup(body, db, t) ==
    LET exist_user == get_user_by_email(body.email, db) IN
    IF exist_user # None THEN Response(409, "Account already exists.", db)
    ELSE LET hashed == [body EXCEPT !.password = get_password_hash(body.password)]
             db2 == create_user(hashed, db)
         IN [Response(201, "User successfully created. Check your email for confirmation.", db2)
                EXCEPT !.mail = send_verification_email(body.email, t)]

\* login that verifies the password before it looks at the confirmed flag
login_password_first(username, password, db, t) ==
    LET user == get_user_by_email(username, db) IN
    IF user = None THEN Response(401, "Invalid email.", db)
    ELSE IF ~verify_password(password, user.password)
         THEN Response(401, "Invalid password.", db)
    ELSE IF ~user.confirmed THEN Response(401, "Email not confirmed.", db)
    ELSE LET access_token == create_access_token([sub |-> user.email], <<>>, t)
             refresh_token_ == create_refresh_token([sub |-> user.email], <<>>, t)
         IN [Response(200, "", update_token(user, refresh_token_, db))
                EXCEPT !.access_token = access_token,
                       !.refresh_token = refresh_token_]

login(username, password, db, t) ==
    LET user == get_user_by_email(username, db) IN
    IF user = None THEN Response(401, "Invalid email.", db)
    ELSE IF ~user.confirmed THEN Response(401, "Email not confirmed.", db)
    ELSE IF ~verify_password(password, user.password)
         THEN Response(401, "Invalid password.", db)
    ELSE LET access_token == create_access_token([sub |-> user.email], <<>>, t)
             refresh_token_ == create_refresh_token([sub |-> user.email], <<>>, t)
         IN [Response(200, "", update_token(user, refresh_token_, db))
                EXCEPT !.access_token = access_token,
                       !.refresh_token = refresh_token_]

\* refresh_token that answers with a new pair and does not store it
refresh_token_not_stored(token, db, t) ==
    LET dec == decode_refresh_token(token, t) IN
    IF dec.status # 200 THEN Response(dec.status, dec.detail, db)
    ELSE LET email == dec.email
             user == get_user_by_email(email, db)
         IN IF user = None THEN Response(500, "AttributeError", db)
            ELSE IF user.refresh_token # token
                 THEN Response(401, "Invalid refresh token.",
                               update_token(user, None, db))
            ELSE [Response(200, "", db)
                    EXCEPT !.access_token = create_access_token([sub |-> email], <<>>, t),
                           !.refresh_token = create_refresh_token([sub |-> email], <<>>, t)]

\* refresh_token that rejects a mismatch and leaves the stored value
refresh_token_no_revoke(token, db, t) ==
    LET dec == decode_refresh_token(token, t) IN
    IF dec.status # 200 THEN Response(dec.status, dec.detail, db)
    ELSE LET email == dec.email
             user == get_user_by_email(email, db)
         IN IF user = None THEN Response(500, "AttributeError", db)
            ELSE IF user.refresh_token # token
                 THEN Response(401, "Invalid refresh token.", db)
            ELSE LET refresh_token_ == create_refresh_token([sub |-> email], <<>>, t)
                 IN [Response(200, "", update_token(user, refresh_token_, db))
                        EXCEPT !.access_token = create_access_token([sub |-> email], <<>>, t),
                               !.refresh_token = refresh_token_]

refresh_token(token, db, t) ==
    LET dec == decode_refresh_token(token, t) IN
    IF dec.status # 200 THEN Response(dec.status, dec.detail, db)
    ELSE LET email == dec.email
             user == get_user_by_email(email, db)
         IN IF user = None THEN Response(500, "AttributeError", db)
            ELSE IF user.refresh_token # token
                 THEN Response(401, "Invalid refresh token.",
                               update_token(user, None, db))
            ELSE LET access_token == create_access_token([sub |-> email], <<>>, t)
                     refresh_token_ == create_refresh_token([sub |-> email], <<>>, t)
                 IN [Response(200, "", update_token(user, refresh_token_, db))
                        EXCEPT !.access_token = access_token,
                               !.refresh_token = refresh_token_]

request_password_reset(body, db, t) ==
    LET user == get_user_by_email(body.email, db) IN
    IF user = None THEN Response(400, "Verification error.", db)
    ELSE [Response(200, "Password reset email sent.", db)
             EXCEPT !.mail = send_reset_email(user.email, t)]

\* confirmed_email without the answer for an already confirmed principal
confirmed_email_every_time(token, db, t) ==
    LET dec == get_email_from_token(token, t) IN
    IF dec.status # 200 THEN Response(dec.status, dec.detail, db)
    ELSE LET user == get_user_by_email(dec.email, db) IN
         IF user = None THEN Response(400, "Verification error.", db)
         ELSE Response(200, "Email confirmed.",
                       repository_confirmed_email(dec.email, db))

confirmed_email(token, db, t) ==
    LET dec == get_email_from_token(token, t) IN
    IF dec.status # 200 THEN Response(dec.status, dec.detail, db)
    ELSE LET user == get_user_by_email(dec.email, db) IN
         IF user = None THEN Response(400, "Verification error.", db)
         ELSE IF user.confirmed
              THEN Response(200, "Your email is already confirmed.", db)
         ELSE Response(200, "Email confirmed.",
                       repository_confirmed_email(dec.email, db))

\* reset_password_post that takes a token for one day after its issue only
reset_password_post_one_day(token, password_data, db, t) ==
    LET dec == get_email_from_token(token, t) IN
    IF dec.status # 200 THEN Response(dec.status, dec.detail, db)
    ELSE IF token.iat + days(1) < t THEN Response(422, "Invalid token for email.", db)
    ELSE LET user == get_user_by_email(dec.email, db)
             new_password == password_data.new_password
         IN IF user = None THEN Response(400, "Verification error.", db)
            ELSE Response(200, "Password reset successfully.",
                          repository_upgrade_password(user, new_password, db))

reset_password_post(token, password_data, db, t) ==
    LET dec == get_email_from_token(token, t) IN
    IF dec.status # 200 THEN Response(dec.status, dec.detail, db)
    ELSE LET user == get_user_by_email(dec.email, db)
             new_password == password_data.new_password
         IN IF user = None THEN Response(400, "Verification error.", db)
            ELSE Response(200, "Password reset successfully.",
                          repository_upgrade_password(user, new_password, db))

\* change_password behind its dependency get_current_user: cur is what the
\* dependency produced
\* the handler that compares the two new passwords before it verifies the
\* current one
change_password_mismatch_first(change_password_data, cur, db) ==
    IF cur.status # 200 THEN Response(cur.status, cur.detail, db)
    ELSE LET current_user == cur.user
             current_password == change_password_data.current_password
             new_password == change_password_data.new_password
             confirm_password == change_password_data.confirm_password
         IN IF new_password # confirm_password
            THEN Response(400, "The provided passwords do not match.", db)
            ELSE IF ~verify_password(current_password, current_user.password)
            THEN Response(401, "Current password is incorrect.", db)
            ELSE Response(200, "Password changed successfully.",
                          upgrade_password(current_user, new_password, db,
                                           ~cur.from_cache))

change_password(change_password_data, cur, db) ==
    IF cur.status # 200 THEN Response(cur.status, cur.detail, db)
    ELSE LET current_user == cur.user
             current_password == change_password_data.current_password
             new_password == change_password_data.new_password
             confirm_password == change_password_data.confirm_password
         IN IF ~verify_password(current_password, current_user.password)
            THEN Response(401, "Current password is incorrect.", db)
            ELSE IF new_password # confirm_password
            THEN Response(400, "The provided passwords do not match.", db)
            ELSE Response(200, "Password changed successfully.",
                          upgrade_password(current_user, new_password, db,
                                           ~cur.from_cache))

-----------------------------------------------------------------------------
(* The system: requests arrive one at a time and run to completion *)


\* what a client can present: a token it was given, or one signed with
\* another key
Held == {issued[i].token : i \in 1..Len(issued)}
\* the latest token handed out, re-signed with another key
Forged ==
    IF issued = <<>> THEN {}
    ELSE {jwt_encode(issued[Len(issued)].token, ForgedKey)}
Presentable == Held \cup Forged

\* tokens a response hands out: the mailed link, the access token, the
\* refresh token
NewTokens(r) ==
    SelectSeq(<<r.mail, r.access_token, r.refresh_token>>, LAMBDA x : x # None)

\* the log entry of a token: which request handed it out, and for which
\* presented token
Issue(op, presented, tk) == [token |-> tk, by |-> op, for |-> presented]
NewIssues(op, presented, r) ==
    [i \in 1..Len(NewTokens(r)) |-> Issue(op, presented, NewTokens(r)[i])]

Result(op, token, email, role, r, cur) ==
    [op |-> op, token |-> token, email |-> email, role |-> role,
     status |-> r.status, detail |-> r.detail,
     access_token |-> r.access_token, refresh_token |-> r.refresh_token,
     principal |-> cur.user, returned |-> cur.returned,
     db_calls |-> cur.db_calls, from_cache |-> cur.from_cache,
     checked |-> cur.checked]

NoLookup ==
    [user |-> None, returned |-> None, db_calls |-> 0, from_cache |-> FALSE,
     checked |-> FALSE]

\* requests served step by step: none of the two slots is in use
Requests == {1, 2}
Idle == [pc |-> "idle"]
NoRequests == [i \in Requests |-> Idle]

\* a@x.com has an account (a moderator); b@x.com has none yet
InitialUsers ==
    [e \in Emails |-> IF e = "a@x.com"
                      THEN User(e, get_password_hash("pw1"), TRUE, FALSE, TRUE, None)
                      ELSE None]

Init ==
    /\ users = InitialUsers
    /\ cache = [e \in Emails |-> None]
    /\ now = 0
    /\ ticks = 0
    /\ issued = <<>>
    /\ resp = [op |-> "start"]
    /\ inflight = NoRequests

TickBy(steps) ==
    \E d \in steps :
        /\ ticks < MaxTicks
        /\ now' = now + d
        /\ ticks' = ticks + 1
        /\ cache' = r_purge(cache, now + d)
        /\ resp' = [op |-> "tick"]
        /\ UNCHANGED <<users, issued, inflight>>

Tick == TickBy(TickSteps)
\* the clock advances by the lifetime of a cache entry
TtlElapses == TickBy({CACHE_TTL})

Handle(op, token, email, role, r, cap) ==
    /\ Len(issued) + Len(NewTokens(r)) <= cap
    /\ users' = r.db
    /\ issued' = issued \o NewIssues(op, token, r)
    /\ resp' = Result(op, token, email, role, r, NoLookup)
    /\ UNCHANGED <<cache, now, ticks, inflight>>

\* the same for a request that carries a password; the response log keeps it
HandleForm(op, email, password, r, cap) ==
    /\ Len(issued) + Len(NewTokens(r)) <= cap
    /\ users' = r.db
    /\ issued' = issued \o NewIssues(op, None, r)
    /\ resp' = Result(op, None, email, "none", r, NoLookup)
                  @@ [password |-> password]
    /\ UNCHANGED <<cache, now, ticks, inflight>>

SignupRequest(cap) ==
    \E email \in Emails, password \in Passwords :
        HandleForm("signup", email, password,
                   signup([email |-> email, password |-> password], users, now), cap)

LoginRequest(cap) ==
    \E username \in Emails, password \in Passwords :
        HandleForm("login", username, password,
                   login(username, password, users, now), cap)

RefreshRequest(cap) ==
    \E token \in Presentable :
        Handle("refresh_token", token, token.sub, "none",
               refresh_token(token, users, now), cap)

ResetMailRequest(cap) ==
    \E email \in Emails :
        Handle("request_password_reset", None, email, "none",
               request_password_reset([email |-> email], users, now), cap)

ConfirmRequest(cap) ==
    \E token \in Presentable :
        Handle("confirmed_email", token, token.sub, "none",
               confirmed_email(token, users, now), cap)

\* a request to an endpoint guarded by Depends(require_role(required_role)),
\* or by Depends(get_current_user) alone ("none")
ProtectedRequest(roles) ==
    \E token \in Presentable, required_role \in roles :
        LET cur == role_checker(token, required_role, cache, users, now) IN
        /\ cache' = cur.cache
        /\ resp' = Result("protected", token, token.sub, required_role,
                          [status |-> cur.status, detail |-> cur.detail,
                           access_token |-> None, refresh_token |-> None], cur)
        /\ UNCHANGED <<users, now, ticks, issued, inflight>>

Protected == ProtectedRequest(RequiredRoles)
\* an endpoint that depends on get_current_user alone
Resolve == ProtectedRequest({"none"})

Signup == SignupRequest(MaxIssued)
Login == LoginRequest(MaxIssued)
RefreshToken == RefreshRequest(MaxIssued)
RequestPasswordReset == ResetMailRequest(MaxIssued)
ConfirmedEmail == ConfirmRequest(MaxIssued)

\* the session subsystem serving the registered principal
Next ==
    Tick \/ Login \/ RefreshToken \/ RequestPasswordReset \/ ConfirmedEmail
         \/ Protected

Spec == Init /\ [][Next]_vars

\* registration: signup, confirmation and the first login
NextSignup == Tick \/ Signup \/ ConfirmedEmail \/ Login

SpecSignup == Init /\ [][NextSignup]_vars

\* login and refresh alone, with room for four token pairs of one principal
ChainLogin == LoginRequest(MaxChain)
ChainRefresh == RefreshRequest(MaxChain)

NextRotation == Tick \/ ChainLogin \/ ChainRefresh

SpecRotation == Init /\ [][NextRotation]_vars

ResetPasswordPost ==
    \E token \in Presentable, new_password \in Passwords :
        LET r == reset_password_post(token, [new_password |-> new_password],
                                     users, now)
        IN /\ users' = r.db
           /\ resp' = Result("reset_password_post", token, token.sub, "none", r,
                             NoLookup) @@ [password |-> new_password]
           /\ UNCHANGED <<cache, now, ticks, issued, inflight>>

ChangePassword ==
    \E token \in Presentable,
       current_password \in Passwords, new_password \in Passwords,
       confirm_password \in Passwords :
        LET cur == get_current_user(token, cache, users, now)
            r == change_password([current_password |-> current_password,
                                  new_password |-> new_password,
                                  confirm_password |-> confirm_password],
                                 cur, users)
        IN /\ users' = r.db
           /\ cache' = cur.cache
           /\ resp' = Result("change_password", token, token.sub, "none", r,
                             cur @@ [returned |-> None, checked |-> FALSE])
                        @@ [password |-> new_password,
                            current_password |-> current_password,
                            confirm_password |-> confirm_password]
           /\ UNCHANGED <<now, ticks, issued, inflight>>

\* persistence drops the row of a principal (the account is removed outside
\* this subsystem); tokens and cache entries of the principal stay around
RemovePrincipal ==
    \E email \in Emails :
        /\ users[email] # None
        /\ users' = [users EXCEPT ![email] = None]
        /\ resp' = [op |-> "remove", email |-> email]
        /\ UNCHANGED <<cache, now, ticks, issued, inflight>>

\* sessions of a principal whose account may disappear
NextRemoval == Tick \/ Login \/ RefreshToken \/ Resolve \/ RemovePrincipal

SpecRemoval == Init /\ [][NextRemoval]_vars

\* registration with accounts that may disappear again
NextConfirm == TtlElapses \/ Signup \/ ConfirmedEmail \/ RemovePrincipal

SpecConfirm == Init /\ [][NextConfirm]_vars

\* the values of expires_delta: not given, small numbers of seconds from 0
\* on, and the two default lifetimes given explicitly
Deltas ==
    {<<>>} \cup {<<n>> : n \in 0..MaxTtl}
           \cup {<<minutes(ACCESS_MINUTES)>>, <<days(REFRESH_DAYS)>>}

\* One call of a token constructor. The constructors read the clock twice:
\* expire is computed from a first utcnow(), the iat claim is a second
\* utcnow() in the update of to_encode, and the claims are encoded in whole
\* seconds; slip = 1 is a call during which the second changes between the
\* two reads.
Created(op, sub, expires_delta, token, slip) ==
    /\ slip = 1 => ticks < MaxTicks
    /\ now' = now + slip
    /\ ticks' = ticks + slip
    /\ cache' = r_purge(cache, now + slip)
    /\ resp' = [op |-> op, sub |-> sub, expires_delta |-> expires_delta,
                read |-> now, token |-> [token EXCEPT !.iat = now + slip]]
    /\ UNCHANGED <<users, issued, inflight>>

CreateAccessToken ==
    \E sub \in Emails, expires_delta \in Deltas, slip \in {0, 1} :
        Created("create_access_token", sub, expires_delta,
                create_access_token([sub |-> sub], expires_delta, now), slip)

CreateRefreshToken ==
    \E sub \in Emails, expires_delta \in Deltas, slip \in {0, 1} :
        Created("create_refresh_token", sub, expires_delta,
                create_refresh_token([sub |-> sub], expires_delta, now), slip)

CreateEmailToken ==
    \E sub \in Emails, slip \in {0, 1} :
        Created("create_email_token", sub, <<>>,
                create_email_token([sub |-> sub], now), slip)

\* the token constructors on their own, for every subject and lifetime
NextLifetime ==
    Tick \/ CreateAccessToken \/ CreateRefreshToken \/ CreateEmailToken

SpecLifetime == Init /\ [][NextLifetime]_vars

\* password resets by mail alone
NextReplay == Tick \/ RequestPasswordReset \/ ResetPasswordPost

SpecReplay == Init /\ [][NextReplay]_vars

\* the session subsystem together with the password operations
NextReset ==
    TtlElapses \/ Login \/ RefreshToken \/ RequestPasswordReset \/ ConfirmedEmail
         \/ ResetPasswordPost \/ ChangePassword \/ Resolve

SpecReset == Init /\ [][NextReset]_vars

\* refresh_token served step by step, two requests at a time; each step is
\* one statement of the handler
Busy == {i \in Requests : inflight[i].pc \notin {"idle", "done"}}

Finish(i, r) ==
    /\ inflight' = [inflight EXCEPT ![i] =
            [pc |-> "done", token |-> inflight[i].token, status |-> r.status,
             refresh_token |-> r.refresh_token]]
    /\ issued' = issued \o NewIssues("refresh_token", inflight[i].token, r)
    /\ resp' = Result("refresh_token", inflight[i].token, inflight[i].token.sub,
                      "none", r, NoLookup)

\* token = credentials.credentials
RaceArrive ==
    \E i \in Requests, token \in Presentable :
        /\ inflight[i].pc = "idle"
        /\ Len(issued) + 2 * (Cardinality(Busy) + 1) <= MaxRace
        /\ inflight' = [inflight EXCEPT ![i] = [pc |-> "decode", token |-> token]]
        /\ UNCHANGED <<users, cache, now, ticks, issued, resp>>

\* email = await auth_service.decode_refresh_token(token)
RaceDecode ==
    \E i \in Requests :
        /\ inflight[i].pc = "decode"
        /\ LET dec == decode_refresh_token(inflight[i].token, now) IN
           IF dec.status # 200
           THEN Finish(i, Response(dec.status, dec.detail, users))
           ELSE /\ inflight' = [inflight EXCEPT ![i] =
                        [pc |-> "read", token |-> inflight[i].token,
                         email |-> dec.email]]
                /\ UNCHANGED <<issued, resp>>
        /\ UNCHANGED <<users, cache, now, ticks>>

\* user = await repository_users.get_user_by_email(email, db)
RaceRead ==
    \E i \in Requests :
        /\ inflight[i].pc = "read"
        /\ inflight' = [inflight EXCEPT ![i] =
                [pc |-> "compare", token |-> inflight[i].token,
                 email |-> inflight[i].email,
                 user |-> get_user_by_email(inflight[i].email, users)]]
        /\ UNCHANGED <<users, cache, now, ticks, issued, resp>>

\* if user.refresh_token != token
RaceCompare ==
    \E i \in Requests :
        /\ inflight[i].pc = "compare"
        /\ IF inflight[i].user = None
           THEN Finish(i, Response(500, "AttributeError", users))
           ELSE /\ inflight' = [inflight EXCEPT ![i] =
                        [@ EXCEPT !.pc = IF inflight[i].user.refresh_token # inflight[i].token
                                         THEN "revoke" ELSE "issue"]]
                /\ UNCHANGED <<issued, resp>>
        /\ UNCHANGED <<users, cache, now, ticks>>

\* await repository_users.update_token(user, None, db); return 401
RaceRevoke ==
    \E i \in Requests :
        /\ inflight[i].pc = "revoke"
        /\ users' = update_token(inflight[i].user, None, users)
        /\ Finish(i, Response(401, "Invalid refresh token.", users'))
        /\ UNCHANGED <<cache, now, ticks>>

\* access_token = create_access_token(...); refresh_token_ = create_refresh_token(...)
RaceIssue ==
    \E i \in Requests :
        /\ inflight[i].pc = "issue"
        /\ inflight' = [inflight EXCEPT ![i] =
                [pc |-> "write", token |-> inflight[i].token,
                 email |-> inflight[i].email, user |-> inflight[i].user,
                 access_token |-> create_access_token([sub |-> inflight[i].email], <<>>, now),
                 refresh_token |-> create_refresh_token([sub |-> inflight[i].email], <<>>, now)]]
        /\ UNCHANGED <<users, cache, now, ticks, issued, resp>>

\* await repository_users.update_token(user, refresh_token_, db); return the pair
RaceWrite ==
    \E i \in Requests :
        /\ inflight[i].pc = "write"
        /\ users' = update_token(inflight[i].user, inflight[i].refresh_token, users)
        /\ Finish(i, [Response(200, "", users')
                         EXCEPT !.access_token = inflight[i].access_token,
                                !.refresh_token = inflight[i].refresh_token])
        /\ UNCHANGED <<cache, now, ticks>>

RaceLogin == LoginRequest(MaxRace)

\* a login, then two refresh requests whose steps interleave freely
NextRace ==
    Tick \/ RaceLogin \/ RaceArrive \/ RaceDecode \/ RaceRead \/ RaceCompare
         \/ RaceRevoke \/ RaceIssue \/ RaceWrite

SpecRace == Init /\ [][NextRace]_vars

\* get_current_user served step by step, two requests at a time; each step
\* is one statement of its second half
Answer(i, status, detail, user, db_calls, from_cache) ==
    /\ inflight' = [inflight EXCEPT ![i] = [pc |-> "done", token |-> inflight[i].token]]
    /\ resp' = Result("protected", inflight[i].token, inflight[i].token.sub, "none",
                      [status |-> status, detail |-> detail,
                       access_token |-> None, refresh_token |-> None],
                      [user |-> user, returned |-> user, db_calls |-> db_calls,
                       from_cache |-> from_cache, checked |-> FALSE])

\* payload = jwt.decode(token, ...); scope and subject
CacheArrive ==
    \E i \in Requests, token \in Presentable :
        /\ inflight[i].pc = "idle"
        /\ LET dec == access_token_email(token, now) IN
           IF dec.status # 200
           THEN /\ inflight' = [inflight EXCEPT ![i] = [pc |-> "done", token |-> token]]
                /\ resp' = Result("protected", token, token.sub, "none",
                                  [status |-> dec.status, detail |-> dec.detail,
                                   access_token |-> None, refresh_token |-> None],
                                  NoLookup)
           ELSE /\ inflight' = [inflight EXCEPT ![i] =
                        [pc |-> "get", token |-> token, email |-> dec.email]]
                /\ UNCHANGED resp
        /\ UNCHANGED <<users, cache, now, ticks, issued>>

\* user = self.r.get(f"user:{email}")
CacheGet ==
    \E i \in Requests :
        /\ inflight[i].pc = "get"
        /\ LET hit == r_get(cache, inflight[i].email, now) IN
           IF hit # None
           THEN Answer(i, 200, "", pickle_loads(hit), 0, TRUE)
           ELSE /\ inflight' = [inflight EXCEPT ![i] = [@ EXCEPT !.pc = "lookup"]]
                /\ UNCHANGED resp
        /\ UNCHANGED <<users, cache, now, ticks, issued>>

\* user = await repository_users.get_user_by_email(email, db)
CacheLookup ==
    \E i \in Requests :
        /\ inflight[i].pc = "lookup"
        /\ LET user == get_user_by_email(inflight[i].email, users) IN
           IF user = None
           THEN Answer(i, 401, credentials_exception.detail, None, 1, FALSE)
           ELSE /\ inflight' = [inflight EXCEPT ![i] =
                        [pc |-> "set", token |-> inflight[i].token,
                         email |-> inflight[i].email, user |-> user]]
                /\ UNCHANGED resp
        /\ UNCHANGED <<users, cache, now, ticks, issued>>

\* self.r.set(f"user:{email}", pickle.dumps(user))
CacheSet ==
    \E i \in Requests :
        /\ inflight[i].pc = "set"
        /\ cache' = r_set(cache, inflight[i].email, pickle_dumps(inflight[i].user))
        /\ inflight' = [inflight EXCEPT ![i] = [@ EXCEPT !.pc = "expire"]]
        /\ UNCHANGED <<users, now, ticks, issued, resp>>

\* self.r.expire(f"user:{email}", 900); return user
CacheExpire ==
    \E i \in Requests :
        /\ inflight[i].pc = "expire"
        /\ cache' = r_expire(cache, inflight[i].email, CACHE_TTL, now)
        /\ Answer(i, 200, "", inflight[i].user, 1, FALSE)
        /\ UNCHANGED <<users, now, ticks, issued>>

\* a login, then two bearer requests whose cache steps interleave freely
NextCache ==
    Tick \/ Login \/ CacheArrive \/ CacheGet \/ CacheLookup \/ CacheSet
         \/ CacheExpire

SpecCache == Init /\ [][NextCache]_vars

\* a page whose handler depends on get_current_user_optional
OptionalPage ==
    \E cookie \in Presentable \cup {None} :
        LET cur == get_current_user_optional(cookie, users, now) IN
        /\ resp' = [op |-> "optional", cookie |-> cookie, raised |-> cur.raised,
                    status |-> cur.status, detail |-> cur.detail,
                    principal |-> cur.user]
        /\ UNCHANGED <<users, cache, now, ticks, issued, inflight>>

\* pages that recognise a returning user by the refresh_token cookie
NextPages == Tick \/ Login \/ RefreshToken \/ OptionalPage

SpecPages == Init /\ [][NextPages]_vars

\* a principal with every combination of role flags
RoleUsers ==
    {[e \in Emails |-> IF e = "a@x.com"
                       THEN User(e, get_password_hash("pw1"), TRUE, adm, mod, None)
                       ELSE None] : adm \in BOOLEAN, mod \in BOOLEAN}

InitRoles ==
    /\ users \in RoleUsers
    /\ cache = [e \in Emails |-> None]
    /\ now = 0
    /\ ticks = 0
    /\ issued = <<>>
    /\ resp = [op |-> "start"]
    /\ inflight = NoRequests

NextRoles == Tick \/ Login \/ Protected

SpecRoles == InitRoles /\ [][NextRoles]_vars

-----------------------------------------------------------------------------
(* Properties *)

Signed(tk) == tk.sig = SECRET_KEY
Expired(tk, t) == tk.exp < t
\* a token the refresh endpoint's decoding accepts at time t
ValidRefresh(tk, t) ==
    Signed(tk) /\ ~Expired(tk, t) /\ tk.scope = "refresh_token" /\ tk.sub # Absent
\* a token the bearer decoding accepts at time t
ValidAccess(tk, t) ==
    Signed(tk) /\ ~Expired(tk, t) /\ tk.scope = "access_token" /\ tk.sub # Absent

\* C1: a refresh request whose token is a valid, unexpired refresh token equal
\* to the value stored on its subject is answered 200 with an access and a
\* refresh token for that subject, and the value stored afterwards is the
\* refresh token of the response.
C1_RefreshMatchRotates ==
    [][ (/\ resp'.op = "refresh_token"
         /\ ValidRefresh(resp'.token, now)
         /\ users[resp'.token.sub] # None
         /\ users[resp'.token.sub].refresh_token = resp'.token)
        => (/\ resp'.status = 200
            /\ resp'.access_token # None
            /\ resp'.access_token.scope = "access_token"
            /\ resp'.access_token.sub = resp'.token.sub
            /\ resp'.refresh_token # None
            /\ resp'.refresh_token.scope = "refresh_token"
            /\ resp'.refresh_token.sub = resp'.token.sub
            /\ users'[resp'.token.sub].refresh_token = resp'.refresh_token) ]_vars

\* a rotation that replaced the stored value by a different, newer token
C1_Witness ==
    /\ resp.op = "refresh_token"
    /\ resp.status = 200
    /\ resp.refresh_token # resp.token
    /\ users[resp.email].refresh_token = resp.refresh_token

\* C2: a refresh request whose token is a valid refresh token of an existing
\* principal and differs from that principal's stored value is answered 401,
\* hands out no token, and leaves the stored value null.
C2_RefreshMismatchRevokes ==
    [][ (/\ resp'.op = "refresh_token"
         /\ ValidRefresh(resp'.token, now)
         /\ users[resp'.token.sub] # None
         /\ users[resp'.token.sub].refresh_token # resp'.token)
        => (/\ resp'.status = 401
            /\ resp'.access_token = None
            /\ resp'.refresh_token = None
            /\ issued' = issued
            /\ users'[resp'.token.sub].refresh_token = None) ]_vars

\* a replayed older token has just revoked the stored value
C2_Witness ==
    /\ resp.op = "refresh_token"
    /\ resp.status = 401
    /\ ValidRefresh(resp.token, now)
    /\ \E i \in 1..Len(issued) :
          /\ issued[i].token.scope = "refresh_token"
          /\ issued[i].token.sub = resp.email
          /\ issued[i].token # resp.token
    /\ users[resp.email].refresh_token = None

\* C3: a refresh request whose token has a bad signature, is expired or is
\* not refresh-scoped is not answered 200, hands out no token, and leaves
\* the persisted principals and the session cache as they were.
C3_RefreshInvalidNoChange ==
    [][ (/\ resp'.op = "refresh_token"
         /\ (\/ ~Signed(resp'.token)
             \/ Expired(resp'.token, now)
             \/ resp'.token.scope # "refresh_token"))
        => (/\ resp'.status # 200
            /\ resp'.access_token = None
            /\ resp'.refresh_token = None
            /\ users' = users
            /\ cache' = cache
            /\ issued' = issued) ]_vars

\* the stored refresh token itself was presented after its expiry and refused
C3_Witness ==
    /\ resp.op = "refresh_token"
    /\ resp.status = 401
    /\ Signed(resp.token)
    /\ resp.token.scope = "refresh_token"
    /\ Expired(resp.token, now)
    /\ users[resp.email].refresh_token = resp.token

\* the refresh endpoint answers a request presenting tk with a new pair
Accepted(tk) == refresh_token(tk, users, now).status = 200

IsRefreshOf(tk, e) == tk.scope = "refresh_token" /\ tk.sub = e

\* C4: for each principal at most one refresh token is accepted by the
\* refresh endpoint, and once a refresh token has been handed out to a
\* principal, no refresh token handed out to that principal before it is
\* accepted any more.
C4_SingleActiveRefresh ==
    \A e \in Emails :
        /\ Cardinality({tk \in Presentable : tk.sub = e /\ Accepted(tk)}) <= 1
        /\ \A i, j \in 1..Len(issued) :
              (/\ i < j
               /\ IsRefreshOf(issued[i].token, e)
               /\ IsRefreshOf(issued[j].token, e))
              => ~Accepted(issued[i].token)

\* C5: when R1 was handed out by a rotation and a rotation of R1 handed out
\* R2, the stored value, a request replaying the still unexpired R1 is
\* answered 401 and nulls the stored value, so that R2 is refused afterwards.
C5_CascadingRevocation ==
    [][ \A i, j \in 1..Len(issued) :
          (/\ i < j
           /\ issued[i].by = "refresh_token"
           /\ issued[i].token.scope = "refresh_token"
           /\ issued[j].by = "refresh_token"
           /\ issued[j].for = issued[i].token
           /\ issued[j].token.scope = "refresh_token"
           /\ users[issued[j].token.sub].refresh_token = issued[j].token
           /\ resp'.op = "refresh_token"
           /\ resp'.token = issued[i].token
           /\ ValidRefresh(issued[i].token, now))
          => (/\ resp'.status = 401
              /\ users'[issued[i].token.sub].refresh_token = None
              /\ refresh_token(issued[j].token, users', now').status = 401) ]_vars

\* C6: the refresh endpoint answers 401 to every access-scoped token, a
\* protected endpoint answers 401 to every refresh-scoped token, and a valid
\* access token resolves to the principal whose email is its subject.
C6_ScopeSeparation ==
    /\ (resp.op = "refresh_token" /\ resp.token.scope = "access_token")
          => resp.status = 401
    /\ (resp.op = "protected" /\ resp.token.scope = "refresh_token")
          => (resp.status = 401 /\ resp.principal = None)
    /\ (resp.op = "protected" /\ ValidAccess(resp.token, now))
          => (/\ resp.status \in {200, 403}
              /\ resp.principal # None
              /\ resp.principal.email = resp.token.sub)
    /\ (resp.op = "protected" /\ resp.principal # None)
          => resp.token.scope = "access_token"

\* the stored, unexpired refresh token of a principal was presented as a
\* bearer token and refused
C6_Witness ==
    /\ resp.op = "protected"
    /\ ValidRefresh(resp.token, now)
    /\ users[resp.email].refresh_token = resp.token
    /\ resp.status = 401

\* C7: a protected request whose token is not a valid access token with a
\* subject is answered 401 "Could not validate credentials", nothing else.
C7_ResolutionFailsOnly401 ==
    (resp.op = "protected" /\ ~ValidAccess(resp.token, now))
       => (resp.status = 401 /\ resp.detail = "Could not validate credentials")

\* C8: a signed access, refresh or email-action token presented to its
\* endpoint after its exp is refused (401, 401, 422); presented one second
\* before its exp it passes the endpoint's decoding.
C8_NoTokenPastExpiry ==
    /\ (resp.op = "protected" /\ resp.token.exp < now) => resp.status = 401
    /\ (resp.op = "refresh_token" /\ resp.token.exp < now)
          => (resp.status = 401 /\ resp.detail = "Could not validate credentials")
    /\ (resp.op = "confirmed_email" /\ resp.token.exp < now) => resp.status = 422
    /\ (/\ resp.op = "protected" /\ resp.role = "none"
        /\ Signed(resp.token) /\ resp.token.scope = "access_token"
        /\ now = resp.token.exp - 1)
          => resp.status = 200
    /\ (/\ resp.op = "refresh_token"
        /\ Signed(resp.token) /\ resp.token.scope = "refresh_token"
        /\ now = resp.token.exp - 1)
          => (/\ resp.detail # "Could not validate credentials"
              /\ users[resp.email].refresh_token = resp.token => resp.status = 200)
    /\ (/\ resp.op = "confirmed_email"
        /\ Signed(resp.token) /\ resp.token.scope = Absent
        /\ now = resp.token.exp - 1)
          => resp.status = 200

\* a refresh token was rotated one second before its exp
C8_Witness ==
    /\ resp.op = "refresh_token"
    /\ now = resp.token.exp - 1
    /\ resp.status = 200

\* C9: for a valid access token, a cache hit returns the cached snapshot with
\* no persistence lookup and leaves the cache; a miss makes one lookup by
\* email and, the principal found, caches its snapshot under the subject and
\* returns it.
C9_CacheFrontedResolution ==
    [][ (resp'.op = "protected" /\ ValidAccess(resp'.token, now))
        => LET e == resp'.token.sub
               hit == r_get(cache, e, now)
           IN /\ hit # None =>
                    (/\ resp'.db_calls = 0
                     /\ resp'.from_cache
                     /\ resp'.principal = pickle_loads(hit)
                     /\ cache' = cache)
              /\ hit = None =>
                    (/\ resp'.db_calls = 1
                     /\ ~resp'.from_cache
                     /\ users[e] # None =>
                           (/\ resp'.principal = users[e]
                            /\ r_get(cache', e, now) = pickle_dumps(users[e])
                            /\ \A o \in Emails \ {e} : cache'[o] = cache[o])) ]_vars

\* a hit has returned a snapshot that persistence no longer matches
C9_Witness ==
    /\ resp.op = "protected"
    /\ resp.status = 200
    /\ resp.from_cache
    /\ resp.db_calls = 0
    /\ resp.returned # users[resp.email]

\* C10: once the principal is resolved, admin passes "admin" and
\* "moderator"; moderator without admin passes "moderator" and gets 403 on
\* "admin"; neither flag gets 403 on both; no requirement always passes; a
\* pass returns the resolved principal itself.
C10_RoleOrdering ==
    (resp.op = "protected" /\ resp.principal # None)
       => LET u == resp.principal
              pass == resp.status = 200 /\ resp.returned = u
              forbidden == resp.status = 403 /\ resp.returned = None
          IN /\ resp.role = "none" => pass
             /\ u.admin => pass
             /\ (u.moderator /\ ~u.admin) =>
                    /\ resp.role = "moderator" => pass
                    /\ resp.role = "admin" => forbidden
             /\ (~u.moderator /\ ~u.admin) =>
                    (resp.role \in {"admin", "moderator"} => forbidden)

\* an admin without the moderator flag has passed a moderator requirement
C10_Witness ==
    /\ resp.op = "protected"
    /\ resp.role = "moderator"
    /\ resp.principal # None
    /\ resp.principal.admin /\ ~resp.principal.moderator
    /\ resp.status = 200

\* C11: a role-guarded request is answered 403 only when get_current_user
\* resolved a principal for it; a request whose token fails resolution is
\* answered 401 and check_user_privileges is not evaluated for it.
C11_GuardAfterResolution ==
    resp.op = "protected" =>
        /\ resp.status = 403 => (resp.principal # None /\ resp.checked)
        /\ resp.principal = None => (resp.status = 401 /\ ~resp.checked)

\* the ordering alone: 403 only for a resolved principal, and no guard
\* evaluation without one
C11_ForbiddenOnlyResolved ==
    resp.op = "protected" =>
        /\ resp.status = 403 => (resp.principal # None /\ resp.checked)
        /\ resp.principal = None => (resp.status # 403 /\ ~resp.checked)

\* C12: get_current_user_optional raises nothing; it returns None when the
\* cookie is absent, badly signed, expired or not refresh-scoped, and returns
\* a principal only for a valid refresh-scoped cookie.
C12_OptionalNeverRaises ==
    resp.op = "optional" =>
        /\ ~resp.raised
        /\ (resp.cookie = None \/ ~ValidRefresh(resp.cookie, now))
              => resp.principal = None
        /\ resp.principal # None => ValidRefresh(resp.cookie, now)

\* the two concurrent refresh requests have both been answered
BothDone == \A i \in Requests : inflight[i].pc = "done"
\* the requests among them whose new refresh token a later refresh accepts
Winners ==
    {i \in Requests : /\ inflight[i].pc = "done"
                      /\ inflight[i].status = 200
                      /\ Accepted(inflight[i].refresh_token)}

\* C13: of two refresh requests of one principal whose steps interleave,
\* every write of the stored value leaves the value it wrote (the last write
\* wins), and once both are answered at most one of the two requests holds
\* a new refresh token that a later refresh request accepts.
C13_ConcurrentRotationRace ==
    [][ \A i \in Requests :
          /\ (inflight[i].pc = "write" /\ inflight'[i].pc = "done")
                => users'[inflight[i].email].refresh_token = inflight[i].refresh_token
          /\ (inflight[i].pc = "revoke" /\ inflight'[i].pc = "done")
                => users'[inflight[i].email].refresh_token = None
          /\ BothDone' => Cardinality(Winners') <= 1 ]_vars

\* the same with the new tokens counted as strings: the last write wins and
\* at most one new refresh token string is accepted afterwards
C13_RaceByValue ==
    [][ \A i \in Requests :
          /\ (inflight[i].pc = "write" /\ inflight'[i].pc = "done")
                => users'[inflight[i].email].refresh_token = inflight[i].refresh_token
          /\ (inflight[i].pc = "revoke" /\ inflight'[i].pc = "done")
                => users'[inflight[i].email].refresh_token = None
          /\ BothDone' =>
                Cardinality({inflight'[j].refresh_token : j \in Winners'}) <= 1 ]_vars

\* both requests rotated the same token in different seconds and only the
\* later writer's new token is still accepted
C13_RaceLoserState ==
    /\ BothDone
    /\ \A i \in Requests : inflight[i].status = 200
    /\ inflight[1].token = inflight[2].token
    /\ inflight[1].refresh_token # inflight[2].refresh_token
    /\ Cardinality(Winners) = 1

\* C14: login of an existing unconfirmed principal is answered 401 "Email not
\* confirmed." whatever the password, hands out no token and leaves the
\* principals as they were; login of a confirmed principal with the right
\* password is answered with an access and a refresh token for its email and
\* stores the refresh token; a wrong password or an unknown email is
\* answered 401 and changes nothing.
C14_LoginGate ==
    [][ resp'.op = "login" =>
          LET u == users[resp'.email]
              refused == /\ resp'.status = 401
                         /\ resp'.access_token = None
                         /\ resp'.refresh_token = None
                         /\ issued' = issued
                         /\ users' = users
                         /\ cache' = cache
          IN /\ u = None => refused
             /\ (u # None /\ ~u.confirmed) =>
                    (refused /\ resp'.detail = "Email not confirmed.")
             /\ (u # None /\ u.confirmed
                   /\ ~verify_password(resp'.password, u.password)) => refused
             /\ (u # None /\ u.confirmed
                   /\ verify_password(resp'.password, u.password)) =>
                    /\ resp'.status = 200
                    /\ resp'.access_token # None
                    /\ resp'.access_token.scope = "access_token"
                    /\ resp'.access_token.sub = u.email
                    /\ resp'.refresh_token # None
                    /\ resp'.refresh_token.scope = "refresh_token"
                    /\ resp'.refresh_token.sub = u.email
                    /\ users'[u.email] = [u EXCEPT !.refresh_token = resp'.refresh_token]
                    /\ \A o \in Emails \ {u.email} : users'[o] = users[o] ]_vars

\* a signed-up principal that has not confirmed was refused although the
\* password was right
C14_Witness ==
    /\ resp.op = "login"
    /\ users[resp.email] # None
    /\ ~users[resp.email].confirmed
    /\ verify_password(resp.password, users[resp.email].password)
    /\ resp.status = 401
    /\ resp.detail = "Email not confirmed."

\* the verification mails that signup has scheduled for email e
SignupsOf(log, e) ==
    {i \in 1..Len(log) : log[i].by = "signup" /\ log[i].token.sub = e}

\* C15: a signup for an email that already has a principal is answered 409,
\* creates nothing and schedules no verification mail; the first signup for
\* an email is answered 201 and creates an unconfirmed principal; so no
\* email ever gets a second principal.
C15_SignupUniqueness ==
    [][ resp'.op = "signup" =>
          LET e == resp'.email IN
          /\ users[e] # None =>
                /\ resp'.status = 409
                /\ users' = users
                /\ issued' = issued
          /\ users[e] = None =>
                /\ resp'.status = 201
                /\ users'[e] # None
                /\ users'[e].email = e
                /\ ~users'[e].confirmed
                /\ verify_password(resp'.password, users'[e].password)
                /\ \A o \in Emails \ {e} : users'[o] = users[o]
                /\ Cardinality(SignupsOf(issued', e)) = 1
          /\ \A o \in Emails :
                Cardinality(SignupsOf(issued', o))
                   <= IF InitialUsers[o] = None THEN 1 ELSE 0 ]_vars

\* a second signup for an email registered by an earlier signup was refused
C15_Witness ==
    /\ resp.op = "signup"
    /\ resp.status = 409
    /\ Cardinality(SignupsOf(issued, resp.email)) = 1
    /\ ~verify_password(resp.password, users[resp.email].password)

\* C16: an access-scoped or refresh-scoped token presented as the path token
\* of confirmed_email or reset_password_post is rejected, and neither the
\* confirmed flag nor the password hash of any principal changes.
C16_ScopeCheckedEverywhere ==
    [][ (/\ resp'.op \in {"confirmed_email", "reset_password_post"}
         /\ resp'.token.scope \in {"access_token", "refresh_token"})
        => (/\ resp'.status # 200
            /\ users' = users) ]_vars

\* a refresh token of the principal was taken as a reset token and the
\* password hash was replaced
C16_ResetByRefreshToken ==
    /\ resp.op = "reset_password_post"
    /\ resp.token.scope = "refresh_token"
    /\ resp.status = 200
    /\ users[resp.email].password # InitialUsers[resp.email].password

\* C17: the refresh endpoint answers every request either with a new token
\* pair or with 401, also for a valid refresh token whose subject has no
\* principal, and a request refused for a missing principal changes nothing.
C17_RefreshFailsOnly401 ==
    [][ resp'.op = "refresh_token" =>
          /\ \/ /\ resp'.status = 200
                /\ resp'.access_token # None
                /\ resp'.refresh_token # None
             \/ resp'.status = 401
          /\ (ValidRefresh(resp'.token, now) /\ users[resp'.token.sub] = None)
                => (users' = users /\ cache' = cache /\ issued' = issued) ]_vars

\* C18: a resolution that misses the cache and finds no principal for the
\* subject is answered 401 and leaves the cache as it was; whenever an entry
\* is written under key s it is the snapshot of the principal that
\* persistence holds for s at that moment, so every entry under s is a
\* snapshot of a principal with email s.
C18_CacheOnlyAfterLookup ==
    [][ /\ (/\ resp'.op = "protected"
            /\ ValidAccess(resp'.token, now)
            /\ r_get(cache, resp'.token.sub, now) = None
            /\ users[resp'.token.sub] = None)
           => (/\ resp'.status = 401
               /\ resp'.principal = None
               /\ cache' = cache)
        /\ \A s \in Emails :
             /\ (cache'[s] # None /\ cache'[s] # cache[s])
                   => (/\ users[s] # None
                       /\ cache'[s].blob = pickle_dumps(users[s]))
             /\ cache'[s] # None => pickle_loads(cache'[s].blob).email = s ]_vars

\* the access token of a removed principal was presented when the cache held
\* nothing for it: one lookup, 401, and still nothing cached
C18_Witness ==
    /\ resp.op = "protected"
    /\ ValidAccess(resp.token, now)
    /\ resp.db_calls = 1
    /\ resp.status = 401
    /\ users[resp.email] = None
    /\ cache[resp.email] = None

\* C19: every entry of the session cache carries an expiry, at most 900
\* seconds ahead, in every state: also between the write of an entry and
\* the expire call that follows it, and with two requests for one subject
\* under way.
C19_BoundedCacheLifetime ==
    \A e \in Emails :
        cache[e] # None =>
            /\ cache[e].expire_at # <<>>
            /\ cache[e].expire_at[1] <= now + CACHE_TTL

\* the operations that change a principal or its tokens
AccountOps ==
    {"login", "refresh_token", "confirmed_email", "reset_password_post",
     "change_password"}

\* C20 as stated: login, refresh, email confirmation, password reset and
\* change_password leave the session cache unchanged.
C20_CacheUnchangedByOps ==
    [][ resp'.op \in AccountOps => cache' = cache ]_vars

\* C20: login, refresh, email confirmation and password reset leave the
\* session cache unchanged; change_password leaves every live entry
\* unchanged and writes the cache only through its get_current_user
\* dependency, on a miss for the token's subject; so after any of these
\* operations a live entry is still what get_current_user returns for its
\* subject, whatever persistence holds by then.
C20_CacheInvalidatedByExpiryOnly ==
    [][ resp'.op \in AccountOps =>
          /\ resp'.op # "change_password" => cache' = cache
          /\ \A e \in Emails :
                /\ r_get(cache, e, now) # None =>
                      /\ cache'[e] = cache[e]
                      /\ lookup_user(e, cache', users', now').user
                            = pickle_loads(r_get(cache, e, now))
                /\ cache'[e] # cache[e] =>
                      /\ resp'.op = "change_password"
                      /\ e = resp'.token.sub
                      /\ ValidAccess(resp'.token, now)
                      /\ users[e] # None
                      /\ r_get(cache', e, now) = pickle_dumps(users[e]) ]_vars

\* a password reset went through while the cache held the principal: the
\* cached snapshot still carries the old password hash
C20_Witness ==
    /\ resp.op = "reset_password_post"
    /\ resp.status = 200
    /\ r_get(cache, resp.email, now) # None
    /\ pickle_loads(r_get(cache, resp.email, now)).password
          # users[resp.email].password

\* C21: whenever change_password is answered 200, the password hash that
\* persistence holds for the principal afterwards verifies new_password and
\* a login with new_password succeeds, whether the principal was resolved
\* from persistence or from the cache.
C21_ChangePasswordPersists ==
    [][ (resp'.op = "change_password" /\ resp'.status = 200)
        => (/\ users'[resp'.email] # None
            /\ verify_password(resp'.password, users'[resp'.email].password)
            /\ login(resp'.email, resp'.password, users', now').status = 200) ]_vars

\* the same for a principal resolved from persistence
C21_PersistsOnMiss ==
    [][ (resp'.op = "change_password" /\ resp'.status = 200 /\ ~resp'.from_cache)
        => (/\ verify_password(resp'.password, users'[resp'.email].password)
            /\ login(resp'.email, resp'.password, users', now').status = 200) ]_vars

\* C22: an unexpired access token of an existing principal is accepted by
\* get_current_user whatever refresh token is stored for the principal:
\* the one issued with it, a later one, or none after a revocation.
C22_AccessIndependentOfRefresh ==
    /\ \A i \in 1..Len(issued) :
          LET tk == issued[i].token IN
          (ValidAccess(tk, now) /\ users[tk.sub] # None)
             => LET cur == get_current_user(tk, cache, users, now) IN
                /\ cur.status = 200
                /\ cur.user # None
                /\ cur.user.email = tk.sub
    /\ (/\ resp.op = "protected"
        /\ ValidAccess(resp.token, now)
        /\ users[resp.token.sub] # None)
          => (resp.status \in {200, 403} /\ resp.principal # None)

\* an access token resolved its principal after a replayed refresh token
\* had nulled the stored value
C22_Witness ==
    /\ resp.op = "protected"
    /\ resp.status = 200
    /\ ValidAccess(resp.token, now)
    /\ users[resp.email].refresh_token = None
    /\ ~resp.from_cache

\* a token that get_email_from_token decodes at time t
DecodesForEmail(tk, t) == Signed(tk) /\ ~Expired(tk, t) /\ tk.sub # Absent

\* C23: confirmed_email with a valid token of an unconfirmed principal sets
\* its confirmed flag and nothing else; with a valid token of a confirmed
\* principal it answers "Your email is already confirmed." and changes
\* nothing; with a valid token whose subject has no principal it answers 400
\* and changes nothing; and no step turns a confirmed principal into an
\* unconfirmed one.
C23_ConfirmationIdempotent ==
    [][ /\ (resp'.op = "confirmed_email" /\ DecodesForEmail(resp'.token, now)) =>
             LET e == resp'.token.sub IN
             /\ (users[e] # None /\ ~users[e].confirmed) =>
                   /\ resp'.status = 200
                   /\ resp'.detail = "Email confirmed."
                   /\ users' = [users EXCEPT ![e] = [@ EXCEPT !.confirmed = TRUE]]
             /\ (users[e] # None /\ users[e].confirmed) =>
                   /\ resp'.status = 200
                   /\ resp'.detail = "Your email is already confirmed."
                   /\ users' = users
             /\ users[e] = None =>
                   /\ resp'.status = 400
                   /\ users' = users
             /\ cache' = cache
             /\ issued' = issued
        /\ \A e \in Emails :
             (users[e] # None /\ users[e].confirmed /\ users'[e] # None)
                => users'[e].confirmed ]_vars

\* the verification token of a signed-up principal was used a second time
C23_Witness ==
    /\ resp.op = "confirmed_email"
    /\ resp.detail = "Your email is already confirmed."
    /\ \E i \in 1..Len(issued) :
          issued[i].by = "signup" /\ issued[i].token = resp.token
    /\ users[resp.email] # None
    /\ users[resp.email].confirmed

\* a verification token was used after its principal had been removed
C23_NoPrincipal ==
    /\ resp.op = "confirmed_email"
    /\ resp.status = 400
    /\ DecodesForEmail(resp.token, now)
    /\ users[resp.email] = None

\* the tokens mailed by request_password_reset
ResetTokens ==
    {issued[i].token : i \in {j \in 1..Len(issued) :
                                issued[j].by = "request_password_reset"}}

\* C24: every use of a reset token of an existing principal up to its exp,
\* seven days after its issue, is answered 200 and replaces the password
\* hash by the hash of the new password; nothing else of the principal
\* changes, and the token is taken again afterwards.
C24_ResetTokenReplayable ==
    [][ (/\ resp'.op = "reset_password_post"
         /\ resp'.token \in ResetTokens
         /\ users[resp'.token.sub] # None
         /\ now <= resp'.token.iat + days(EMAIL_DAYS))
        => LET e == resp'.token.sub IN
           /\ resp'.status = 200
           /\ users' = [users EXCEPT ![e] =
                           [@ EXCEPT !.password = get_password_hash(resp'.password)]]
           /\ users'[e].refresh_token = users[e].refresh_token
           /\ users'[e].confirmed = users[e].confirmed
           /\ issued' = issued
           /\ cache' = cache
           /\ \A p \in Passwords :
                 reset_password_post(resp'.token, [new_password |-> p],
                                     users', now').status = 200 ]_vars

\* the only reset token ever mailed was taken one second before its exp, or
\* at it, and replaced the password of the principal
C24_Witness ==
    /\ resp.op = "reset_password_post"
    /\ resp.status = 200
    /\ Len(issued) = 1
    /\ resp.token \in ResetTokens
    /\ now >= resp.token.iat + days(EMAIL_DAYS) - 1
    /\ resp.password = "pw2"
    /\ users[resp.email].password = get_password_hash("pw2")

\* the change_password requests whose token resolved to a principal
Authenticated(r) == r.op = "change_password" /\ r.principal # None

\* C25 as stated: with an authenticated principal, a wrong current_password
\* is answered 401 also when new_password and confirm_password differ, a
\* correct one with differing new passwords is answered 400, and in both
\* cases the persisted principal and the cache are as before the request.
C25_FailureLeavesCache ==
    [][ Authenticated(resp') =>
          LET wrong == ~verify_password(resp'.current_password,
                                        resp'.principal.password)
              differ == resp'.password # resp'.confirm_password
          IN /\ wrong => resp'.status = 401
             /\ (~wrong /\ differ) => resp'.status = 400
             /\ (wrong \/ differ) => (users' = users /\ cache' = cache) ]_vars

\* C25, with the cache as get_current_user leaves it: with an authenticated
\* principal, a current_password that does not verify against the resolved
\* principal's hash is answered 401 also when new_password and
\* confirm_password differ, a verifying one with differing new passwords is
\* answered 400, and in both cases no principal is changed in persistence
\* (neither password hash nor stored refresh token), a cache entry that was
\* live is untouched, and the only cache write is the snapshot that
\* get_current_user stores for the subject on a miss.
C25_FailureOrderAndFrame ==
    [][ Authenticated(resp') =>
          LET e == resp'.token.sub
              wrong == ~verify_password(resp'.current_password,
                                        resp'.principal.password)
              differ == resp'.password # resp'.confirm_password
          IN /\ wrong => (/\ resp'.status = 401
                          /\ resp'.detail = "Current password is incorrect.")
             /\ (~wrong /\ differ) =>
                   (/\ resp'.status = 400
                    /\ resp'.detail = "The provided passwords do not match.")
             /\ (wrong \/ differ) =>
                   /\ users' = users
                   /\ users'[e].password = users[e].password
                   /\ users'[e].refresh_token = users[e].refresh_token
                   /\ resp'.from_cache => cache' = cache
                   /\ ~resp'.from_cache =>
                         cache' = r_expire(r_set(cache, e, pickle_dumps(users[e])),
                                           e, CACHE_TTL, now) ]_vars

\* a request with a wrong current password and two different new passwords
\* was answered 401 for a principal read from persistence
C25_Witness ==
    /\ Authenticated(resp)
    /\ ~resp.from_cache
    /\ ~verify_password(resp.current_password, users[resp.email].password)
    /\ resp.password # resp.confirm_password
    /\ resp.status = 401

\* a request with the right current password and two different new
\* passwords was answered 400 for a principal taken from the cache
C25_Mismatch400 ==
    /\ Authenticated(resp)
    /\ resp.from_cache
    /\ verify_password(resp.current_password, resp.principal.password)
    /\ resp.password # resp.confirm_password
    /\ resp.status = 400

\* the lifetime a constructor uses when expires_delta is not given
DefaultLifetime(op) ==
    IF op = "create_access_token" THEN minutes(ACCESS_MINUTES)
    ELSE IF op = "create_refresh_token" THEN days(REFRESH_DAYS)
    ELSE days(EMAIL_DAYS)

Constructors ==
    {"create_access_token", "create_refresh_token", "create_email_token"}

\* C26: every access and refresh token made with a supplied ttl, 0
\* included, has exp = iat + ttl; without a ttl an access token has
\* exp = iat + 900 and a refresh token exp = iat + 604800; an email-action
\* token always has exp = iat + 604800.
C26_LifetimeArithmetic ==
    resp.op \in Constructors =>
        IF resp.op # "create_email_token" /\ resp.expires_delta # <<>>
        THEN resp.token.exp = resp.token.iat + resp.expires_delta[1]
        ELSE resp.token.exp = resp.token.iat + DefaultLifetime(resp.op)

\* what the constructors compute instead: a ttl of 0 is taken as no ttl, and
\* exp counts from the first clock read, which the iat claim follows by at
\* most the second that passed during the call
C26_LifetimeFromFirstRead ==
    resp.op \in Constructors =>
        /\ resp.token.exp = resp.read +
               (IF resp.op # "create_email_token" /\ Truthy(resp.expires_delta)
                THEN resp.expires_delta[1] ELSE DefaultLifetime(resp.op))
        /\ resp.token.iat \in {resp.read, resp.read + 1}
        /\ resp.token.sub = resp.sub

\* C26 holds of every call that supplies no ttl or a ttl other than 0 and
\* during which the clock's second does not change
C26_ArithmeticWithinOneSecond ==
    (/\ resp.op \in Constructors
     /\ resp.token.iat = resp.read
     /\ resp.expires_delta # <<0>>)
    => IF resp.op # "create_email_token" /\ resp.expires_delta # <<>>
       THEN resp.token.exp = resp.token.iat + resp.expires_delta[1]
       ELSE resp.token.exp = resp.token.iat + DefaultLifetime(resp.op)

\* an access token asked for with a ttl of 0 that lives for fifteen minutes
C26_ZeroTtlGetsDefault ==
    /\ resp.op = "create_access_token"
    /\ resp.expires_delta = <<0>>
    /\ resp.token.iat = resp.read
    /\ resp.token.exp = resp.token.iat + 900

====
